---- MODULE Spec2Model ----
(***************************************************************************)
(* Economic calendar fetcher (src/fetch_calendar.py): the run pipeline     *)
(* load -> fetch -> merge -> check_and_send_notifications -> save, the     *)
(* persisted document calendar_data.json and the wall clock.               *)
(*                                                                         *)
(* Time is counted in whole hours since midnight of day 0.  A date is the  *)
(* day number of an instant, a display time is a string such as "14:00".   *)
(***************************************************************************)
EXTENDS Integers, Sequences, FiniteSets

(***************************************************************************)
(* Bounds of the model.                                                    *)
(***************************************************************************)
MaxRows == 2          \* rows in one provider response
MaxRuns == 2          \* runs of main() in one behaviour
MaxClock == 24        \* last wall-clock hour a behaviour reaches
TickHours == 12       \* hours between two readings of the wall clock
MaxOverlap == 2       \* runs of main() in a behaviour with overlapping runs
MaxTraced == 1        \* runs of main() in a behaviour with traced fetches
MaxIO == 2            \* runs of main() in a behaviour with failing reads and writes

(***************************************************************************)
(* Program constants.                                                      *)
(***************************************************************************)
WindowDays == 28      \* timedelta(days=28)
WarnHours == 12       \* 0 <= hours_until <= 12
HoursPerDay == 24     \* %Y-%m-%d / %H:%M split of an instant

Procs == {1, 2}
Triggers == {"A", "B"}

\* Python's None, and the text of an element the row does not have.
None == "<None>"
Missing == "<missing>"
\* The non-breaking space the provider uses for "no data".
Nbsp == "<nbsp>"
\* datetime.strptime raising ValueError.
ParseError == -1
\* "updated_at": None of a document that was never written.
NoStamp == -1

(***************************************************************************)
(* The provider's rows.  A name is a sequence of tokens, " " a whitespace  *)
(* character, so that two spellings of one name exist.                     *)
(***************************************************************************)
NameLoose == <<"Core", " ", " ", "CPI">>
NameTight == <<"Core", " ", "CPI">>
NameOther == <<"NFP">>

Row(dt, cur, key, name, time, act) ==
    [datetime |-> dt, currency |-> cur, img_key |-> key, name |-> name,
     time |-> time, forecast |-> "0.3%", actual |-> act, previous |-> Nbsp]

\* An event of day 0 at 18:00 in four states, the same entry rated Medium,
\* a second row of the same day and name at 12:00, a Medium event, and one
\* row for each filter.
RawRows ==
    { Row(18, "USD", "bull3", NameLoose, "18:00", ""),
      Row(18, "USD", "bull3", NameTight, "18:00", "0.4%"),
      Row(18, "USD", "bull3", NameTight, "Tentative", "0.4%"),
      Row(18, "USD", "bull2", NameTight, "18:00", "0.4%"),
      Row(12, "USD", "bull3", NameTight, "12:00", Nbsp),
      Row(18, "USD", "bull2", NameOther, Missing, "0.1%"),
      Row(18, "EUR", "bull3", NameTight, "18:00", "0.4%"),
      Row(18, "USD", "bull1", NameTight, "18:00", "0.4%"),
      Row(18 + (WindowDays + 1) * HoursPerDay, "USD", "bull3", NameTight,
          "18:00", ""),
      Row(ParseError, "USD", "bull3", NameTight, "18:00", "") }

VARIABLES
    clock,               \* datetime.now(), in hours
    persisted,           \* calendar_data.json
    telegram_bot_token,  \* self.telegram_bot_token
    telegram_chat_id,    \* self.telegram_chat_id
    runs,                \* runs of main() started so far
    pc,                  \* per run: where main() stands
    old_data,            \* main: old_data
    start_date,          \* fetch_calendar_events: start_date
    released_late,       \* ids of the response's released rows whose instant is past
    event_instants,      \* the provider's instant of each event of new_events
    event_sources,       \* currency and impact marker of the row of each event
    raw_rows,            \* the rows of the response, when the fetch is traced
    load_failed,         \* the read of the document raised in this run
    fetch_failed,        \* the fetch of this run raised
    fetch_empty,         \* the fetch of this run returned no event without raising
    new_events,          \* main: new_events as fetch returned them
    merged_events,       \* main: merged_events
    updated_events,      \* main: updated_events
    attempts,            \* calls of send_telegram_notification in this run
    doc_before,          \* the document when this run started
    delivered,           \* successful deliveries per (id, trigger), up to 2
    history,             \* (id, mark) shown by an earlier persisted batch
    pending,             \* (id, trigger) whose last attempt failed
    any_failed           \* some delivery attempt has failed

vars == <<clock, persisted, telegram_bot_token, telegram_chat_id, runs, pc,
          old_data, start_date, released_late, event_instants, event_sources,
          raw_rows, load_failed, fetch_failed, fetch_empty, new_events,
          merged_events, updated_events, attempts, doc_before, delivered,
          history, pending, any_failed>>

(***************************************************************************)
(* Helpers on sequences and Python values.                                 *)
(***************************************************************************)
Range(s) == {s[i] : i \in 1..Len(s)}

SeqsUpTo(S, n) == UNION {[1..k -> S] : k \in 0..n}

\* Python truthiness of an optional string: None and '' are falsy.
Truthy(v) == v /= None /\ v /= ""

\* name.split(): the maximal runs of non-whitespace tokens.
RECURSIVE Split(_)
Split(name) ==
    IF name = <<>> THEN <<>>
    ELSE IF Head(name) = " " THEN Split(Tail(name))
    ELSE <<Head(name)>> \o Split(Tail(name))

\* ' '.join(words)
RECURSIVE Join(_)
Join(words) ==
    IF words = <<>> THEN <<>>
    ELSE IF Len(words) = 1 THEN words
    ELSE <<Head(words), " ">> \o Join(Tail(words))

\* name = ' '.join(name.split())
CleanName(name) == Join(Split(name))

\* The '%H:%M' strings of the whole hours.
HourString ==
    <<"00:00", "01:00", "02:00", "03:00", "04:00", "05:00", "06:00", "07:00",
      "08:00", "09:00", "10:00", "11:00", "12:00", "13:00", "14:00", "15:00",
      "16:00", "17:00", "18:00", "19:00", "20:00", "21:00", "22:00", "23:00">>

\* event_datetime.strftime('%Y-%m-%d') and event_datetime.strftime('%H:%M')
StrftimeDate(dt) == dt \div HoursPerDay
StrftimeHM(dt) == HourString[(dt % HoursPerDay) + 1]

\* datetime.strptime(f"{date} {time}", "%Y-%m-%d %H:%M"): the instant, or
\* ParseError when the display time is not an HH:MM string.
HourOf ==
    [s \in {HourString[h] : h \in 1..Len(HourString)} |->
        (CHOOSE h \in 1..Len(HourString) : HourString[h] = s) - 1]

Strptime(date, time) ==
    IF time \in DOMAIN HourOf
    THEN date * HoursPerDay + HourOf[time]
    ELSE ParseError

\* elem.get_text(strip=True) if elem else None, then '' and '\xa0' -> None
OptionalText(text) ==
    IF text = Missing \/ text = "" \/ text = Nbsp THEN None ELSE text

(***************************************************************************)
(* generate_event_id: md5 of "date_name", cut to 16 hex digits.  The       *)
(* digest is modelled as the pair it is computed from (no collisions       *)
(* among the few names of the model).                                      *)
(***************************************************************************)
generate_event_id(date, name) == <<date, name>>

(***************************************************************************)
(* fetch_calendar_events: the filters of one row and the event built      *)
(* from an accepted row.                                                   *)
(***************************************************************************)
InWindow(dt, start) ==
    ~(dt < start \/ dt > start + WindowDays * HoursPerDay)

\* The row filters without the comparison of the currency with 'USD'.
AcceptedAnyCurrency(row, start) ==
    /\ row.datetime /= ParseError
    /\ InWindow(row.datetime, start)
    /\ row.currency /= Missing
    /\ row.img_key /= Missing
    /\ row.img_key \in {"bull2", "bull3"}

Accepted(row, start) ==
    /\ row.datetime /= ParseError
    /\ InWindow(row.datetime, start)
    /\ row.currency /= Missing
    /\ row.currency = "USD"
    /\ row.img_key /= Missing
    /\ row.img_key \in {"bull2", "bull3"}

ToEvent(row) ==
    LET name == CleanName(row.name)
        date == StrftimeDate(row.datetime)
        actual == OptionalText(row.actual)
    IN  [id |-> generate_event_id(date, name),
         date |-> date,
         time |-> IF row.time = Missing THEN StrftimeHM(row.datetime)
                  ELSE row.time,
         name |-> name,
         impact |-> IF row.img_key = "bull3" THEN "High" ELSE "Medium",
         forecast |-> OptionalText(row.forecast),
         actual |-> actual,
         previous |-> OptionalText(row.previous),
         status |-> IF Truthy(actual) THEN "completed" ELSE "upcoming",
         notification_sent_12h |-> FALSE,
         notification_sent_release |-> FALSE]

\* The rows the loop accepts, in order.
RECURSIVE AcceptedRows(_, _)
AcceptedRows(rows, start) ==
    IF rows = <<>> THEN <<>>
    ELSE IF Accepted(Head(rows), start)
         THEN <<Head(rows)>> \o AcceptedRows(Tail(rows), start)
         ELSE AcceptedRows(Tail(rows), start)

Normalize(rows, start) ==
    LET acc == AcceptedRows(rows, start)
    IN  [i \in 1..Len(acc) |-> ToEvent(acc[i])]

\* The responses of the provider: a calendar, in chronological order, with
\* one row for an entry (an instant, a currency and a name).
SameEntry(r1, r2) ==
    /\ r1.datetime = r2.datetime
    /\ r1.currency = r2.currency
    /\ CleanName(r1.name) = CleanName(r2.name)

Responses ==
    { rows \in SeqsUpTo(RawRows, MaxRows) :
        \A i, j \in 1..Len(rows) :
            i < j => /\ rows[i].datetime <= rows[j].datetime
                     /\ ~SameEntry(rows[i], rows[j]) }

\* A fetch whose except branch returns the events parsed so far.
FetchResultPartial(failed, rows, start) == Normalize(rows, start)

\* What fetch_calendar_events returns: the events, or [] when the request
\* or the parse of the response raised.
FetchResult(failed, rows, start) ==
    IF failed THEN <<>> ELSE Normalize(rows, start)

\* The High-impact USD rows of a response that carry an actual value and
\* whose instant is before the start of the run's window, by id.
ReleasedLate(rows, start) ==
    { ToEvent(r).id :
        r \in {x \in Range(rows) :
                  /\ x.datetime /= ParseError /\ x.datetime < start
                  /\ x.currency = "USD" /\ x.img_key = "bull3"
                  /\ Truthy(OptionalText(x.actual))} }

\* Every outcome of a fetch at the instant start: the request or the parse
\* raised, or the provider answered with one of its responses.
FetchOutcomes(start) ==
    { [failed |-> failed,
       events |-> FetchResult(failed, rows, start),
       instants |-> LET acc == AcceptedRows(IF failed THEN <<>> ELSE rows, start)
                    IN  [i \in 1..Len(acc) |-> acc[i].datetime],
       sources |-> LET acc == AcceptedRows(IF failed THEN <<>> ELSE rows, start)
                   IN  [i \in 1..Len(acc) |->
                           [currency |-> acc[i].currency, img_key |-> acc[i].img_key]],
       late |-> IF failed THEN {} ELSE ReleasedLate(rows, start)] :
        failed \in BOOLEAN, rows \in Responses }

\* The instants at which the wall clock is read, and the outcomes of a
\* fetch at each of them.
Clocks == {h \in 0..MaxClock : h % TickHours = 0}

FetchOutcomesAt == [start \in Clocks |-> FetchOutcomes(start)]

(***************************************************************************)
(* merge_with_existing                                                     *)
(***************************************************************************)
\* {event['id']: event for event in old_data['events']}: the last entry of
\* an id wins.
OldEventsMap(events, id) ==
    events[CHOOSE i \in 1..Len(events) :
               /\ events[i].id = id
               /\ \A j \in (i+1)..Len(events) : events[j].id /= id]

InOld(events, id) == \E i \in 1..Len(events) : events[i].id = id

\* A merge that carries the status of the prior entry with its flags.
MergeOneKeepsStatus(new_event, old_events) ==
    IF InOld(old_events, new_event.id)
    THEN LET old_event == OldEventsMap(old_events, new_event.id)
         IN  [new_event EXCEPT
                !.notification_sent_12h = old_event.notification_sent_12h,
                !.notification_sent_release = old_event.notification_sent_release,
                !.status = old_event.status]
    ELSE new_event

MergeOne(new_event, old_events) ==
    IF InOld(old_events, new_event.id)
    THEN LET old_event == OldEventsMap(old_events, new_event.id)
         IN  [new_event EXCEPT
                !.notification_sent_12h = old_event.notification_sent_12h,
                !.notification_sent_release = old_event.notification_sent_release,
                !.status = IF Truthy(new_event.actual) /\ ~Truthy(old_event.actual)
                           THEN "completed" ELSE @]
    ELSE new_event

merge_with_existing(events, old) ==
    [i \in 1..Len(events) |-> MergeOne(events[i], old.events)]

(***************************************************************************)
(* send_telegram_notification: False without contacting the sink when a    *)
(* credential is empty, otherwise what the sink answers.                   *)
(***************************************************************************)
Configured == ~(telegram_bot_token = "" \/ telegram_chat_id = "")

\* A delivery that goes to the sink whatever the credentials are.
SendUnchecked(answer) == answer

send_telegram_notification(answer) ==
    IF ~Configured THEN FALSE ELSE answer

(***************************************************************************)
(* check_and_send_notifications, one event: the event after the two        *)
(* triggers and the deliveries attempted, in order.  net.A and net.B are   *)
(* what the sink would answer to the first and the second message.         *)
(***************************************************************************)
HoursUntil(event, now) == Strptime(event.date, event.time) - now

Parses(event) == Strptime(event.date, event.time) /= ParseError

TriggerA(event, now) ==
    /\ 0 <= HoursUntil(event, now) /\ HoursUntil(event, now) <= WarnHours
    /\ ~event.notification_sent_12h
    /\ event.impact = "High"

TriggerB(event) ==
    /\ event.status = "completed"
    /\ Truthy(event.actual)
    /\ ~event.notification_sent_release
    /\ event.impact = "High"

Attempt(pos, event, trigger, answer) ==
    [pos |-> pos, id |-> event.id, trigger |-> trigger,
     contacted |-> Configured, ok |-> send_telegram_notification(answer)]

\* An evaluation that sets the flag of a trigger whatever the delivery returns.
EvaluateOneFlagsAnyway(pos, event, now, net) ==
    IF ~Parses(event)
    THEN [event |-> event, log |-> <<>>]
    ELSE LET dueA == TriggerA(event, now)
             afterA == [event EXCEPT !.notification_sent_12h = dueA \/ @]
             dueB == TriggerB(afterA)
             afterB == [afterA EXCEPT !.notification_sent_release = dueB \/ @]
         IN  [event |-> afterB,
              log |-> (IF dueA THEN <<Attempt(pos, event, "A", net.A)>> ELSE <<>>)
                      \o (IF dueB THEN <<Attempt(pos, event, "B", net.B)>> ELSE <<>>)]

\* An evaluation that gives up on an event after a failed warning.
EvaluateOneStopsOnFailure(pos, event, now, net) ==
    IF ~Parses(event)
    THEN [event |-> event, log |-> <<>>]
    ELSE LET dueA == TriggerA(event, now)
             okA == dueA /\ send_telegram_notification(net.A)
             afterA == [event EXCEPT !.notification_sent_12h = okA \/ @]
             dueB == TriggerB(afterA) /\ (dueA => okA)
             okB == dueB /\ send_telegram_notification(net.B)
             afterB == [afterA EXCEPT !.notification_sent_release = okB \/ @]
         IN  [event |-> afterB,
              log |-> (IF dueA THEN <<Attempt(pos, event, "A", net.A)>> ELSE <<>>)
                      \o (IF dueB THEN <<Attempt(pos, event, "B", net.B)>> ELSE <<>>)]

EvaluateOne(pos, event, now, net) ==
    IF ~Parses(event)
    THEN \* strptime raised: the except branch appends the event as it is
         [event |-> event, log |-> <<>>]
    ELSE LET dueA == TriggerA(event, now)
             okA == dueA /\ send_telegram_notification(net.A)
             afterA == [event EXCEPT !.notification_sent_12h = okA \/ @]
             dueB == TriggerB(afterA)
             okB == dueB /\ send_telegram_notification(net.B)
             afterB == [afterA EXCEPT !.notification_sent_release = okB \/ @]
         IN  [event |-> afterB,
              log |-> (IF dueA THEN <<Attempt(pos, event, "A", net.A)>> ELSE <<>>)
                      \o (IF dueB THEN <<Attempt(pos, event, "B", net.B)>> ELSE <<>>)]

RECURSIVE LogFrom(_, _, _, _)
LogFrom(events, i, now, net) ==
    IF i > Len(events) THEN <<>>
    ELSE EvaluateOne(i, events[i], now, net[i]).log \o LogFrom(events, i + 1, now, net)

\* An evaluation whose except branch drops the event it could not process.
CheckDropsRaised(events, now, net) ==
    LET kept == SelectSeq([i \in 1..Len(events) |-> i],
                          LAMBDA i : Parses(events[i]))
    IN  [events |-> [k \in 1..Len(kept) |->
                        EvaluateOne(kept[k], events[kept[k]], now, net[kept[k]]).event],
         log |-> LogFrom(events, 1, now, net)]

check_and_send_notifications(events, now, net) ==
    [events |-> [i \in 1..Len(events) |-> EvaluateOne(i, events[i], now, net[i]).event],
     log |-> LogFrom(events, 1, now, net)]

(***************************************************************************)
(* The persisted document.                                                 *)
(***************************************************************************)
EmptyData == [updated_at |-> NoStamp, events |-> <<>>]

NoDocument == [exists |-> FALSE, updated_at |-> NoStamp, events |-> <<>>]

\* A load that returns whatever the document holds even when the read raised.
LoadIgnoresError(doc, read_ok) ==
    IF doc.exists
    THEN [updated_at |-> doc.updated_at, events |-> doc.events]
    ELSE [updated_at |-> NoStamp, events |-> <<>>]

\* load_existing_data: the document, or the empty structure when it is
\* absent (FileNotFoundError) or the read raised.
load_existing_data(doc, read_ok) ==
    IF doc.exists /\ read_ok
    THEN [updated_at |-> doc.updated_at, events |-> doc.events]
    ELSE EmptyData

\* save_calendar_data: the document after the write; a failed write is
\* logged and leaves the document as it was.
save_calendar_data(doc, events, now, write_ok) ==
    IF write_ok
    THEN [exists |-> TRUE, updated_at |-> now, events |-> events]
    ELSE doc

(***************************************************************************)
(* Bookkeeping for the properties: what was delivered, what a persisted    *)
(* batch has shown, which attempts failed.                                 *)
(***************************************************************************)
AllIds ==
    { generate_event_id(StrftimeDate(r.datetime), CleanName(r.name)) :
        r \in {x \in RawRows : x.datetime /= ParseError} }

Successes(log, id, trigger) ==
    Cardinality({i \in 1..Len(log) :
                    log[i].id = id /\ log[i].trigger = trigger /\ log[i].ok})

CountUp(n, k) == IF n + k > 2 THEN 2 ELSE n + k

MarksOf(events) ==
    {<<e.id, "12h">> : e \in {x \in Range(events) : x.notification_sent_12h}}
    \cup {<<e.id, "release">> : e \in {x \in Range(events) : x.notification_sent_release}}
    \cup {<<e.id, "completed">> : e \in {x \in Range(events) : x.status = "completed"}}

Attempted(log) == {<<a.id, a.trigger>> : a \in Range(log)}
Failed(log) == {<<a.id, a.trigger>> : a \in {x \in Range(log) : ~x.ok}}

(***************************************************************************)
(* Initial state: no document yet, nothing running.                        *)
(***************************************************************************)
Init ==
    /\ clock = 0
    /\ persisted = NoDocument
    /\ telegram_bot_token \in {"", "token"}
    /\ telegram_chat_id \in {"", "chat"}
    /\ runs = 0
    /\ pc = [p \in Procs |-> "idle"]
    /\ old_data = [p \in Procs |-> EmptyData]
    /\ start_date = [p \in Procs |-> 0]
    /\ released_late = [p \in Procs |-> {}]
    /\ event_instants = [p \in Procs |-> <<>>]
    /\ event_sources = [p \in Procs |-> <<>>]
    /\ raw_rows = [p \in Procs |-> <<>>]
    /\ load_failed = [p \in Procs |-> FALSE]
    /\ fetch_failed = [p \in Procs |-> FALSE]
    /\ fetch_empty = [p \in Procs |-> FALSE]
    /\ new_events = [p \in Procs |-> <<>>]
    /\ merged_events = [p \in Procs |-> <<>>]
    /\ updated_events = [p \in Procs |-> <<>>]
    /\ attempts = [p \in Procs |-> <<>>]
    /\ doc_before = [p \in Procs |-> NoDocument]
    /\ delivered = [k \in AllIds \X Triggers |-> 0]
    /\ history = {}
    /\ pending = {}
    /\ any_failed = FALSE

(***************************************************************************)
(* main(), step by step.  The locals of a run exist while it runs.         *)
(***************************************************************************)
ClearLocals(p) ==
    /\ old_data' = [old_data EXCEPT ![p] = EmptyData]
    /\ start_date' = [start_date EXCEPT ![p] = 0]
    /\ released_late' = [released_late EXCEPT ![p] = {}]
    /\ event_instants' = [event_instants EXCEPT ![p] = <<>>]
    /\ event_sources' = [event_sources EXCEPT ![p] = <<>>]
    /\ raw_rows' = [raw_rows EXCEPT ![p] = <<>>]
    /\ load_failed' = [load_failed EXCEPT ![p] = FALSE]
    /\ new_events' = [new_events EXCEPT ![p] = <<>>]
    /\ merged_events' = [merged_events EXCEPT ![p] = <<>>]
    /\ updated_events' = [updated_events EXCEPT ![p] = <<>>]
    /\ attempts' = [attempts EXCEPT ![p] = <<>>]

\* A load that waits until no other run is under way.
LoadWithLock(p, read_ok) ==
    /\ \A q \in Procs : pc[q] = "idle"
    /\ runs < MaxRuns
    /\ old_data' = [old_data EXCEPT ![p] = load_existing_data(persisted, read_ok)]
    /\ runs' = runs + 1
    /\ pc' = [pc EXCEPT ![p] = "loaded"]
    /\ doc_before' = [doc_before EXCEPT ![p] = persisted]
    /\ load_failed' = [load_failed EXCEPT ![p] = ~read_ok]
    /\ fetch_failed' = [fetch_failed EXCEPT ![p] = FALSE]
    /\ fetch_empty' = [fetch_empty EXCEPT ![p] = FALSE]
    /\ UNCHANGED <<clock, persisted, telegram_bot_token, telegram_chat_id,
                   start_date, released_late, event_instants, event_sources,
                   raw_rows, new_events, merged_events, updated_events, attempts,
                   delivered, history, pending, any_failed>>

\* old_data = fetcher.load_existing_data()
LoadWith(p, read_ok) ==
    /\ pc[p] = "idle"
    /\ runs < MaxRuns
    /\ old_data' = [old_data EXCEPT ![p] = load_existing_data(persisted, read_ok)]
    /\ runs' = runs + 1
    /\ pc' = [pc EXCEPT ![p] = "loaded"]
    /\ doc_before' = [doc_before EXCEPT ![p] = persisted]
    /\ load_failed' = [load_failed EXCEPT ![p] = ~read_ok]
    /\ fetch_failed' = [fetch_failed EXCEPT ![p] = FALSE]
    /\ fetch_empty' = [fetch_empty EXCEPT ![p] = FALSE]
    /\ UNCHANGED <<clock, persisted, telegram_bot_token, telegram_chat_id,
                   start_date, released_late, event_instants, event_sources,
                   raw_rows, new_events, merged_events, updated_events, attempts,
                   delivered, history, pending, any_failed>>

\* The read succeeds, or there is no document to read.
Load(p) == LoadWith(p, TRUE)

\* The document is there and reading it raises.
LoadUnreadable(p) == persisted.exists /\ LoadWith(p, FALSE)

\* new_events = fetcher.fetch_calendar_events()
Fetch(p) ==
    /\ pc[p] = "loaded"
    /\ \E out \in FetchOutcomesAt[clock] :
         /\ fetch_failed' = [fetch_failed EXCEPT ![p] = out.failed]
         /\ fetch_empty' = [fetch_empty EXCEPT ![p] =
                               ~out.failed /\ out.events = <<>>]
         /\ released_late' = [released_late EXCEPT ![p] = out.late]
         /\ event_instants' = [event_instants EXCEPT ![p] = out.instants]
         /\ event_sources' = [event_sources EXCEPT ![p] = out.sources]
         /\ new_events' = [new_events EXCEPT ![p] = out.events]
    /\ start_date' = [start_date EXCEPT ![p] = clock]
    /\ pc' = [pc EXCEPT ![p] = "fetched"]
    /\ UNCHANGED <<clock, persisted, telegram_bot_token, telegram_chat_id, runs,
                   old_data, raw_rows, load_failed, merged_events, updated_events,
                   attempts, doc_before, delivered, history, pending, any_failed>>

\* The same fetch, with the rows of the response kept beside the events.
FetchTraced(p) ==
    /\ pc[p] = "loaded"
    /\ \E failed \in BOOLEAN, rows \in Responses :
         /\ fetch_failed' = [fetch_failed EXCEPT ![p] = failed]
         /\ fetch_empty' = [fetch_empty EXCEPT ![p] =
                               ~failed /\ FetchResult(failed, rows, clock) = <<>>]
         /\ raw_rows' = [raw_rows EXCEPT ![p] = IF failed THEN <<>> ELSE rows]
         /\ released_late' = [released_late EXCEPT ![p] =
                                 IF failed THEN {} ELSE ReleasedLate(rows, clock)]
         /\ LET acc == AcceptedRows(IF failed THEN <<>> ELSE rows, clock)
            IN  /\ event_instants' = [event_instants EXCEPT ![p] =
                                         [i \in 1..Len(acc) |-> acc[i].datetime]]
                /\ event_sources' = [event_sources EXCEPT ![p] =
                                        [i \in 1..Len(acc) |->
                                            [currency |-> acc[i].currency,
                                             img_key |-> acc[i].img_key]]]
         /\ new_events' = [new_events EXCEPT ![p] = FetchResult(failed, rows, clock)]
    /\ start_date' = [start_date EXCEPT ![p] = clock]
    /\ pc' = [pc EXCEPT ![p] = "fetched"]
    /\ UNCHANGED <<clock, persisted, telegram_bot_token, telegram_chat_id, runs,
                   old_data, load_failed, merged_events, updated_events, attempts,
                   doc_before, delivered, history, pending, any_failed>>

\* A run that writes the batch it fetched even when the batch is empty.
ReturnEarlySaves(p) ==
    /\ pc[p] = "fetched"
    /\ new_events[p] = <<>>
    /\ persisted' = save_calendar_data(persisted, new_events[p], clock, TRUE)
    /\ pc' = [pc EXCEPT ![p] = "idle"]
    /\ ClearLocals(p)
    /\ UNCHANGED <<clock, telegram_bot_token, telegram_chat_id, runs,
                   fetch_failed, fetch_empty, doc_before, delivered, history,
                   pending, any_failed>>

\* if not new_events: return
ReturnEarly(p) ==
    /\ pc[p] = "fetched"
    /\ new_events[p] = <<>>
    /\ pc' = [pc EXCEPT ![p] = "idle"]
    /\ ClearLocals(p)
    /\ UNCHANGED <<clock, persisted, telegram_bot_token, telegram_chat_id, runs,
                   fetch_failed, fetch_empty, doc_before, delivered, history, pending,
                   any_failed>>

\* merged_events = fetcher.merge_with_existing(new_events, old_data)
Merge(p) ==
    /\ pc[p] = "fetched"
    /\ new_events[p] /= <<>>
    /\ merged_events' = [merged_events EXCEPT ![p] =
                            merge_with_existing(new_events[p], old_data[p])]
    /\ pc' = [pc EXCEPT ![p] = "merged"]
    /\ UNCHANGED <<clock, persisted, telegram_bot_token, telegram_chat_id, runs,
                   old_data, start_date, released_late, event_instants,
                   event_sources, raw_rows, load_failed,
                   fetch_failed, fetch_empty, new_events, updated_events, attempts,
                   doc_before, delivered, history, pending, any_failed>>

\* updated_events = fetcher.check_and_send_notifications(merged_events)
Notify(p) ==
    /\ pc[p] = "merged"
    /\ \E r \in { check_and_send_notifications(merged_events[p], clock, net) :
                   net \in [1..Len(merged_events[p]) -> [A : BOOLEAN, B : BOOLEAN]] } :
             /\ updated_events' = [updated_events EXCEPT ![p] = r.events]
             /\ attempts' = [attempts EXCEPT ![p] = r.log]
             /\ delivered' = [k \in AllIds \X Triggers |->
                                CountUp(delivered[k], Successes(r.log, k[1], k[2]))]
             /\ any_failed' = (any_failed \/ Failed(r.log) /= {})
    /\ pc' = [pc EXCEPT ![p] = "evaluated"]
    /\ UNCHANGED <<clock, persisted, telegram_bot_token, telegram_chat_id, runs,
                   old_data, start_date, released_late, event_instants,
                   event_sources, raw_rows, load_failed,
                   fetch_failed, fetch_empty, new_events, merged_events, doc_before, history,
                   pending>>

\* fetcher.save_calendar_data(updated_events)
SaveWith(p, write_ok) ==
    /\ pc[p] = "evaluated"
    /\ persisted' = save_calendar_data(persisted, updated_events[p], clock, write_ok)
    /\ history' = (IF write_ok THEN history \cup MarksOf(persisted.events)
                   ELSE history)
    /\ pending' = (pending \ Attempted(attempts[p])) \cup Failed(attempts[p])
    /\ pc' = [pc EXCEPT ![p] = "idle"]
    /\ ClearLocals(p)
    /\ doc_before' = [doc_before EXCEPT ![p] = NoDocument]
    /\ UNCHANGED <<clock, telegram_bot_token, telegram_chat_id, runs,
                   fetch_failed, fetch_empty, delivered, any_failed>>

Save(p) == SaveWith(p, TRUE)

\* The write raises: logged, the run ends all the same.
SaveFails(p) == SaveWith(p, FALSE)

\* The wall clock moves on between runs (a run takes seconds).
Tick ==
    /\ \A p \in Procs : pc[p] = "idle"
    /\ clock + TickHours <= MaxClock
    /\ clock' = clock + TickHours
    /\ UNCHANGED <<persisted, telegram_bot_token, telegram_chat_id, runs, pc,
                   old_data, start_date, released_late, event_instants,
                   event_sources, raw_rows, load_failed,
                   fetch_failed, fetch_empty, new_events, merged_events, updated_events,
                   attempts, doc_before, delivered, history, pending, any_failed>>

\* The steps of a run after its load.
Continue(p) == Fetch(p) \/ ReturnEarly(p) \/ Merge(p) \/ Notify(p) \/ Save(p)

Run(p) == Load(p) \/ Continue(p)

\* The schedule starts one run at a time and the document store works.
Next == Run(1) \/ Tick

Spec == Init /\ [][Next]_vars

\* The same schedule with a document store whose reads and writes can fail.
StartIO(p) == runs < MaxIO /\ (Load(p) \/ LoadUnreadable(p))

NextIO == StartIO(1) \/ Continue(1) \/ SaveFails(1) \/ Tick

SpecIO == Init /\ [][NextIO]_vars

\* A schedule that takes no care to keep runs apart: either process starts
\* a run whenever it is idle, whatever the other one is doing.
StartOverlap(p) == runs < MaxOverlap /\ Load(p)

NextOverlap == (\E p \in Procs : StartOverlap(p) \/ Continue(p)) \/ Tick

SpecOverlap == Init /\ [][NextOverlap]_vars

\* The one-run-at-a-time schedule with every fetch traced.
StartTraced(p) == runs < MaxTraced /\ Load(p)

NextTraced ==
    \/ StartTraced(1) \/ FetchTraced(1) \/ ReturnEarly(1) \/ Merge(1)
    \/ Notify(1) \/ Save(1) \/ Tick

SpecTraced == Init /\ [][NextTraced]_vars

(***************************************************************************)
(* Vocabulary of the properties.                                           *)
(***************************************************************************)
Ids(events) == {events[i].id : i \in 1..Len(events)}

UniqueIds(events) ==
    \A i, j \in 1..Len(events) : i /= j => events[i].id /= events[j].id

Shows(event, mark) ==
    IF mark = "12h" THEN event.notification_sent_12h
    ELSE IF mark = "release" THEN event.notification_sent_release
    ELSE event.status = "completed"

FlagOf(event, trigger) ==
    IF trigger = "A" THEN event.notification_sent_12h
    ELSE event.notification_sent_release

AttemptedAt(log, pos, trigger) ==
    \E k \in 1..Len(log) : log[k].pos = pos /\ log[k].trigger = trigger

\* The conditions of the two triggers as the design states them: the
\* warning on the time left until the scheduled instant of the event, the
\* release on impact, status, actual value and flag alone.
WarningDue(event, instant, now) ==
    /\ event.impact = "High"
    /\ ~event.notification_sent_12h
    /\ 0 <= instant - now /\ instant - now <= WarnHours

ReleaseDue(event) ==
    /\ event.impact = "High"
    /\ event.status = "completed"
    /\ Truthy(event.actual)
    /\ ~event.notification_sent_release

Due(trigger, event, instant, now) ==
    IF trigger = "A" THEN WarningDue(event, instant, now) ELSE ReleaseDue(event)

(***************************************************************************)
(* C1  At-most-once firing: as long as no delivery attempt has failed, no  *)
(* trigger has been delivered more than once for any event id.             *)
(***************************************************************************)
C1_AtMostOnce ==
    ~any_failed => \A k \in AllIds \X Triggers : delivered[k] <= 1

(***************************************************************************)
(* C2  Flag monotonicity: a notification flag that an earlier persisted    *)
(* batch showed true for an id is true in every entry of that id in the    *)
(* persisted batch.                                                        *)
(***************************************************************************)
C2_FlagsSticky ==
    \A h \in history : h[2] \in {"12h", "release"} =>
        \A i \in 1..Len(persisted.events) :
            persisted.events[i].id = h[1] => Shows(persisted.events[i], h[2])

(***************************************************************************)
(* C3  Post-release notification through the pipeline: a released          *)
(* High-impact row of the response whose instant is past and whose id got  *)
(* its warning in an earlier run is kept by the fetch, is merged with the  *)
(* warning flag set and status completed, and gets its release delivery    *)
(* attempted in the run.                                                   *)
(***************************************************************************)
C3_PostReleaseDelivered ==
    \A id \in released_late[1] : delivered[<<id, "A">>] >= 1 =>
        /\ pc[1] \in {"fetched", "merged", "evaluated"} => id \in Ids(new_events[1])
        /\ pc[1] \in {"merged", "evaluated"} =>
             \E i \in 1..Len(merged_events[1]) :
                 /\ merged_events[1][i].id = id
                 /\ merged_events[1][i].notification_sent_12h
                 /\ merged_events[1][i].status = "completed"
        /\ pc[1] = "evaluated" =>
             \E k \in 1..Len(attempts[1]) :
                 attempts[1][k].id = id /\ attempts[1][k].trigger = "B"

(***************************************************************************)
(* C4  Status non-regression: an id that an earlier persisted batch showed *)
(* completed is completed in every entry of that id in the persisted       *)
(* batch.                                                                  *)
(***************************************************************************)
C4_StatusNeverRegresses ==
    \A h \in history : h[2] = "completed" =>
        \A i \in 1..Len(persisted.events) :
            persisted.events[i].id = h[1] => Shows(persisted.events[i], h[2])

(***************************************************************************)
(* C5  Id uniqueness: no two entries of a normalized, merged, evaluated    *)
(* or persisted batch share an id.                                         *)
(***************************************************************************)
C5_IdsUnique ==
    /\ UniqueIds(persisted.events)
    /\ \A p \in Procs : /\ UniqueIds(new_events[p])
                        /\ UniqueIds(merged_events[p])
                        /\ UniqueIds(updated_events[p])

(***************************************************************************)
(* C6  Trigger B condition: after the evaluation of a merged batch, a      *)
(* release delivery was attempted for an event exactly when the event is   *)
(* High impact, completed, has an actual value and its release flag was    *)
(* false; the display time plays no part.                                  *)
(***************************************************************************)
C6_ReleaseIff ==
    pc[1] = "evaluated" =>
        \A i \in 1..Len(merged_events[1]) :
            AttemptedAt(attempts[1], i, "B") <=> ReleaseDue(merged_events[1][i])

(***************************************************************************)
(* C7  Trigger A condition: after the evaluation of a merged batch, a      *)
(* warning delivery was attempted for an event exactly when the event is   *)
(* High impact, its warning flag was false and its scheduled instant is    *)
(* between 0 and 12 hours away, both bounds included.                      *)
(***************************************************************************)
C7_WarningIff ==
    pc[1] = "evaluated" =>
        \A i \in 1..Len(merged_events[1]) :
            AttemptedAt(attempts[1], i, "A")
                <=> WarningDue(merged_events[1][i], event_instants[1][i], clock)

(***************************************************************************)
(* C8  Retry after delivery failure: a failed attempt leaves the flag of   *)
(* its event false in the batch the run persists, every event of the batch *)
(* is still evaluated, and an (id, trigger) whose last attempt failed gets *)
(* a new attempt in the run that fetches the id with the trigger's         *)
(* conditions holding.                                                     *)
(***************************************************************************)
C8_RetryAfterFailure ==
    pc[1] = "evaluated" =>
        /\ Len(updated_events[1]) = Len(merged_events[1])
        /\ \A k \in 1..Len(attempts[1]) :
             ~attempts[1][k].ok =>
                 ~FlagOf(updated_events[1][attempts[1][k].pos], attempts[1][k].trigger)
        /\ \A i \in 1..Len(merged_events[1]) : \A t \in Triggers :
             (/\ <<merged_events[1][i].id, t>> \in pending
              /\ Due(t, merged_events[1][i], event_instants[1][i], clock))
                 => AttemptedAt(attempts[1], i, t)

(***************************************************************************)
(* C9  Fetch failure leaves state untouched: in a run whose fetch raised   *)
(* nothing is merged, no delivery is attempted and the document is the one *)
(* the run found, up to and after the end of the run.                      *)
(***************************************************************************)
C9_FetchFailureLeavesState ==
    \A p \in Procs : fetch_failed[p] =>
        /\ pc[p] \in {"fetched", "idle"}
        /\ new_events[p] = <<>>
        /\ merged_events[p] = <<>>
        /\ updated_events[p] = <<>>
        /\ attempts[p] = <<>>
        /\ persisted = doc_before[p]

\* A run whose fetch raised has ended, with a document of earlier events.
C9_Witness ==
    /\ pc[1] = "idle"
    /\ fetch_failed[1]
    /\ persisted.exists
    /\ persisted.events /= <<>>

(***************************************************************************)
(* C10  Merge id set: the merged batch has the entries of new_events in    *)
(* their order (so exactly their ids), and an entry whose id is in the     *)
(* prior batch carries the two notification flags of the prior entries of  *)
(* that id.                                                                *)
(***************************************************************************)
SameButFlagsAndStatus(e1, e2) ==
    [e1 EXCEPT !.notification_sent_12h = FALSE,
               !.notification_sent_release = FALSE, !.status = ""]
    = [e2 EXCEPT !.notification_sent_12h = FALSE,
                 !.notification_sent_release = FALSE, !.status = ""]

C10_MergeIdSet ==
    pc[1] = "merged" =>
        /\ Len(merged_events[1]) = Len(new_events[1])
        /\ \A i \in 1..Len(new_events[1]) :
             SameButFlagsAndStatus(merged_events[1][i], new_events[1][i])
        /\ \A i \in 1..Len(merged_events[1]) :
             \A j \in 1..Len(old_data[1].events) :
                 old_data[1].events[j].id = merged_events[1][i].id =>
                     /\ merged_events[1][i].notification_sent_12h
                          = old_data[1].events[j].notification_sent_12h
                     /\ merged_events[1][i].notification_sent_release
                          = old_data[1].events[j].notification_sent_release

(***************************************************************************)
(* C11  Derived status: in the normalized, the merged, the evaluated and   *)
(* the persisted batch every event has status completed when its actual    *)
(* value is present and status upcoming when it is not.                    *)
(***************************************************************************)
StatusDerived(events) ==
    \A i \in 1..Len(events) :
        events[i].status = (IF Truthy(events[i].actual) THEN "completed"
                            ELSE "upcoming")

C11_DerivedStatus ==
    /\ StatusDerived(persisted.events)
    /\ \A p \in Procs : /\ StatusDerived(new_events[p])
                        /\ StatusDerived(merged_events[p])
                        /\ StatusDerived(updated_events[p])

\* An id saved as upcoming comes back with an actual value and is merged
\* with its prior entry.
C11_Witness ==
    /\ pc[1] = "merged"
    /\ \E i \in 1..Len(merged_events[1]) :
         /\ merged_events[1][i].status = "completed"
         /\ InOld(old_data[1].events, merged_events[1][i].id)
         /\ OldEventsMap(old_data[1].events, merged_events[1][i].id).status
              = "upcoming"

(***************************************************************************)
(* C12  Medium-impact events never notify: no delivery is attempted for an *)
(* event whose impact is Medium, and both notification flags of a Medium   *)
(* event are false in the evaluated and in the persisted batch.            *)
(***************************************************************************)
MediumSilent(events) ==
    \A i \in 1..Len(events) :
        events[i].impact = "Medium" =>
            /\ ~events[i].notification_sent_12h
            /\ ~events[i].notification_sent_release

C12_MediumNeverNotifies ==
    /\ MediumSilent(persisted.events)
    /\ \A p \in Procs :
         /\ MediumSilent(updated_events[p])
         /\ \A k \in 1..Len(attempts[p]) :
              merged_events[p][attempts[p][k].pos].impact /= "Medium"

(***************************************************************************)
(* C13  Overlapping runs can double-send: nothing keeps a run from         *)
(* starting and loading the document while another run is between its load *)
(* and its save, nothing keeps a run from saving, and a save makes the     *)
(* document the batch of the run that saves, whatever was saved since that *)
(* run loaded.                                                             *)
(***************************************************************************)
C13_NoMutualExclusion ==
    \A p \in Procs :
        /\ (pc[p] = "idle" /\ runs < MaxOverlap) => ENABLED StartOverlap(p)
        /\ pc[p] = "evaluated" =>
             /\ ENABLED Save(p)
             /\ save_calendar_data(persisted, updated_events[p], clock, TRUE).events
                  = updated_events[p]

\* Two runs that loaded the same document have each delivered the same
\* trigger for the same id, once each.
C13_Witness ==
    /\ pc[1] = "evaluated" /\ pc[2] = "evaluated"
    /\ doc_before[1] = doc_before[2]
    /\ \E k \in AllIds \X Triggers :
         /\ delivered[k] = 2
         /\ Successes(attempts[1], k[1], k[2]) = 1
         /\ Successes(attempts[2], k[1], k[2]) = 1

(***************************************************************************)
(* C14  Missing credentials disable delivery only: with an empty bot token *)
(* or chat id every delivery attempt fails without contacting the sink and *)
(* no flag is set (the evaluated batch is the merged batch and no          *)
(* persisted entry shows a flag), while the run goes on: the fetched batch *)
(* can be merged, the evaluated batch has its ids and can be saved, and a  *)
(* run that fetched events has left them in the document.                  *)
(***************************************************************************)
NoFlag(events) ==
    \A i \in 1..Len(events) :
        ~events[i].notification_sent_12h /\ ~events[i].notification_sent_release

C14_MissingCredentials ==
    (telegram_bot_token = "" \/ telegram_chat_id = "") =>
        /\ \A k \in AllIds \X Triggers : delivered[k] = 0
        /\ NoFlag(persisted.events)
        /\ \A p \in Procs :
             /\ \A k \in 1..Len(attempts[p]) :
                  ~attempts[p][k].contacted /\ ~attempts[p][k].ok
             /\ (pc[p] = "fetched" /\ new_events[p] /= <<>>) => ENABLED Merge(p)
             /\ pc[p] = "evaluated" =>
                  /\ updated_events[p] = merged_events[p]
                  /\ Ids(updated_events[p]) = Ids(new_events[p])
                  /\ ENABLED Save(p)
        /\ (pc[1] = "idle" /\ runs >= 1 /\ ~fetch_failed[1] /\ ~fetch_empty[1]) =>
             persisted.exists /\ persisted.events /= <<>>

\* Without a chat id a run has attempted a delivery, which failed, and has
\* saved its batch.
C14_Witness ==
    /\ telegram_chat_id = ""
    /\ telegram_bot_token /= ""
    /\ pc[1] = "idle"
    /\ any_failed
    /\ persisted.exists
    /\ \E i \in 1..Len(persisted.events) : persisted.events[i].impact = "High"

(***************************************************************************)
(* C15  Filter correctness: the normalized batch is what the rows with     *)
(* currency USD and marker bull2 or bull3 alone would give, so a row of    *)
(* another currency or marker adds nothing to it whatever its other fields *)
(* are; the merged and the evaluated batch have the entries of the         *)
(* normalized batch, and every delivery attempt is for one of them.        *)
(***************************************************************************)
Wanted(row) == row.currency = "USD" /\ row.img_key \in {"bull2", "bull3"}

C15_FilterCorrect ==
    \A p \in Procs :
        /\ new_events[p] = Normalize(SelectSeq(raw_rows[p], Wanted), start_date[p])
        /\ Len(event_sources[p]) = Len(new_events[p])
        /\ \A i \in 1..Len(event_sources[p]) : Wanted(event_sources[p][i])
        /\ pc[p] \in {"merged", "evaluated"} =>
             /\ Len(merged_events[p]) = Len(new_events[p])
             /\ \A i \in 1..Len(new_events[p]) :
                  merged_events[p][i].id = new_events[p][i].id
        /\ pc[p] = "evaluated" =>
             /\ Len(updated_events[p]) = Len(new_events[p])
             /\ \A i \in 1..Len(new_events[p]) :
                  updated_events[p][i].id = new_events[p][i].id
             /\ \A k \in 1..Len(attempts[p]) :
                  attempts[p][k].pos \in 1..Len(new_events[p])

\* A response of two rows in the window, one of them of another currency or
\* marker, has given a batch of one event, which has been evaluated.
C15_Witness ==
    /\ pc[1] = "evaluated"
    /\ Len(raw_rows[1]) = 2
    /\ \A i \in 1..2 : /\ raw_rows[1][i].datetime /= ParseError
                        /\ InWindow(raw_rows[1][i].datetime, start_date[1])
    /\ \E i \in 1..2 : ~Wanted(raw_rows[1][i])
    /\ Len(updated_events[1]) = 1

(***************************************************************************)
(* C16  Persistence read degradation: a run that finds no document, or     *)
(* whose read of the document raises, goes on with the empty prior batch:  *)
(* what it fetches can be merged, every fetched event is merged as it was  *)
(* fetched, with both flags false, and the evaluated batch has the ids of  *)
(* the fetched one and can be saved.                                       *)
(***************************************************************************)
C16_ReadDegradation ==
    \A p \in Procs :
        (pc[p] /= "idle" /\ (load_failed[p] \/ ~doc_before[p].exists)) =>
            /\ old_data[p] = EmptyData
            /\ (pc[p] = "fetched" /\ new_events[p] /= <<>>) => ENABLED Merge(p)
            /\ pc[p] \in {"merged", "evaluated"} =>
                 /\ merged_events[p] = new_events[p]
                 /\ NoFlag(merged_events[p])
            /\ pc[p] = "evaluated" =>
                 /\ Ids(updated_events[p]) = Ids(new_events[p])
                 /\ Len(updated_events[p]) = Len(new_events[p])
                 /\ ENABLED Save(p)

\* The read of a document that shows a flag has raised, and the run has
\* evaluated an event of an id of that document.
C16_Witness ==
    /\ pc[1] = "evaluated"
    /\ load_failed[1]
    /\ ~NoFlag(doc_before[1].events)
    /\ \E i \in 1..Len(merged_events[1]) :
         InOld(doc_before[1].events, merged_events[1][i].id)

FlagsDelivered(events) ==
    \A i \in 1..Len(events) : \A t \in Triggers :
        FlagOf(events[i], t) => delivered[<<events[i].id, t>>] >= 1

C18_NoFlagWithoutDelivery ==
    /\ FlagsDelivered(persisted.events)
    /\ \A p \in Procs : /\ FlagsDelivered(old_data[p].events)
                        /\ FlagsDelivered(new_events[p])
                        /\ FlagsDelivered(merged_events[p])
                        /\ FlagsDelivered(updated_events[p])

\* After a failed delivery, a batch saved by a later run shows the release
\* flag of an id whose release was delivered once.
C18_Witness ==
    /\ pc[1] = "idle"
    /\ runs >= 2
    /\ any_failed
    /\ persisted.updated_at >= TickHours
    /\ \E i \in 1..Len(persisted.events) :
         /\ persisted.events[i].notification_sent_release
         /\ ~persisted.events[i].notification_sent_12h
         /\ delivered[<<persisted.events[i].id, "B">>] = 1

(***************************************************************************)
(* C19  Evaluator frame: the evaluated batch has the events of the merged  *)
(* batch in their order, those whose evaluation raised included; an event  *)
(* differs from what it was in at most its two notification flags, and a   *)
(* flag that was true is true.                                             *)
(***************************************************************************)
SameButFlags(e1, e2) ==
    [e1 EXCEPT !.notification_sent_12h = FALSE, !.notification_sent_release = FALSE]
    = [e2 EXCEPT !.notification_sent_12h = FALSE, !.notification_sent_release = FALSE]

C19_EvaluatorFrame ==
    \A p \in Procs : pc[p] = "evaluated" =>
        /\ Len(updated_events[p]) = Len(merged_events[p])
        /\ \A i \in 1..Len(merged_events[p]) :
             /\ SameButFlags(updated_events[p][i], merged_events[p][i])
             /\ \A t \in Triggers :
                  FlagOf(merged_events[p][i], t) => FlagOf(updated_events[p][i], t)

\* A batch with an event whose display time cannot be parsed and an event
\* whose flag the evaluation has set.
C19_Witness ==
    /\ pc[1] = "evaluated"
    /\ \E i, j \in 1..Len(merged_events[1]) :
         /\ ~Parses(merged_events[1][i])
         /\ ~merged_events[1][j].notification_sent_12h
         /\ updated_events[1][j].notification_sent_12h

(***************************************************************************)
(* C20  Empty fetch is treated like a failed fetch: in a run whose fetch   *)
(* returned no event without raising nothing is merged, no delivery is     *)
(* attempted and nothing is written, so the document is the one the run    *)
(* found, with the events of the run before, up to and after the end of    *)
(* the run.                                                                *)
(***************************************************************************)
C20_EmptyFetchLeavesState ==
    \A p \in Procs : fetch_empty[p] =>
        /\ ~fetch_failed[p]
        /\ pc[p] \in {"fetched", "idle"}
        /\ new_events[p] = <<>>
        /\ merged_events[p] = <<>>
        /\ updated_events[p] = <<>>
        /\ attempts[p] = <<>>
        /\ persisted = doc_before[p]

\* A run whose fetch returned no event has ended, and the document still
\* holds the events of an earlier run.
C20_Witness ==
    /\ pc[1] = "idle"
    /\ fetch_empty[1]
    /\ persisted.exists
    /\ Len(persisted.events) >= 1
    /\ persisted.updated_at < clock

====
